---- MODULE Spec2Model ----
(***************************************************************************)
(* A model of cryptl's SHA engine: the padding routine and the             *)
(* Merkle-Damgard driver of SHA_Base (SHA.hpp), the truncating variants    *)
(* SHA_224 and SHA_384, the round functions of SHA_Functions and the       *)
(* integer backend BitwiseINT.                                             *)
(*                                                                         *)
(* A word of type T (uint8_t, uint32_t, uint64_t) is the set of the bit    *)
(* positions 0 .. T-1 that are set in it, T being the width in bits: the   *)
(* widths of the code are kept, and no value leaves the checker's range.   *)
(***************************************************************************)
EXTENDS Integers, FiniteSets, Sequences, TLC

VARIABLES
    USE_ASSERT,     \* the build: the assert() lines under #ifdef USE_ASSERT are compiled in and active
    \* ---- padMessage (SHA.hpp) ----
    BLK,            \* template parameter SHA_BlockSize of the padMessage call
    padPc,          \* position in padMessage: "idle", "zeros", "length", "done"
    lengthBits,     \* the in/out parameter lengthBits
    msgLengthBits,  \* the local copy taken on entry
    os,             \* the bytes written to the stream, in order
    \* ---- one call of a BitwiseINT function ----
    opPc,           \* "idle", "in_xtime", "in_multiply", "returned", "aborted", "overflow"
    opFn,           \* the function called
    opT,            \* its template parameter T, as a width in bits
    opX, opY, opZ,  \* its word arguments (opZ: the third word, or modpoly)
    opN,            \* its shift / rotate / bit amount
    opResult,       \* the value returned
    opDepth,        \* stack frames of the running call
    xtmp, ytmp, xorsum, \* the locals of multiply
    opIter,         \* iterations of multiply's loop so far
    \* ---- one engine: SHA_224 or SHA_384 over SHA_Base ----
    variant,        \* the class of the engine: "SHA224" or "SHA384"
    m_message,      \* SHA_Base::m_message, the buffered words
    m_H,            \* the hash state of the base class, 8 words
    m_Hleft,        \* m_Hleft224 / m_Hleft384, the truncated copy
    m_setDigest,    \* the flag afterHash sets and digest clears
    pc,             \* "idle", "hashing" (inside computeHash), "aborted", "crashed"
    msgIndex,       \* the local msgIndex of computeHash
    \* ---- what the caller has seen (history) ----
    lastOp,         \* the last public operation called
    ret,            \* what digest() returned last since the last computeHash (None: nothing)
    hashedMsg,      \* the buffer at the entry of the last computeHash
    lastH,          \* the hash state the last computeHash left, while the buffer is untouched since
    runs,           \* completed computeHash calls: 0, 1, 2 (two or more)
    rerun,          \* the last computeHash: "first"; "same": the buffer untouched since the run
                    \* before; "other": a buffer of other content; "again": the same content, loaded anew
    digests         \* digest() calls since the last computeHash: 0, 1, 2 (two or more)

padVars == <<BLK, padPc, lengthBits, msgLengthBits, os>>
engVars == <<variant, m_message, m_H, m_Hleft, m_setDigest, pc, msgIndex,
             lastOp, ret, hashedMsg, lastH, runs, rerun, digests>>
opVars == <<opPc, opFn, opT, opX, opY, opZ, opN, opResult, opDepth, xtmp, ytmp, xorsum, opIter>>

----------------------------------------------------------------------------
(* Bounds of the model.                                                    *)

\* message lengths handed to padMessage: 8*q + r bits, q <= MaxLengthBytes, r <= MaxOddBits
MaxLengthBytes == 130
MaxOddBits == 1
\* the zero-padding loop is followed for at most this many bytes of output
MaxSuffixBytes == 131
\* argument words have their bits among the LowBits lowest and the highest
LowBits == 2
\* shift and rotate amounts go up to the width plus this
MaxExcess == 2
\* stack frames before the stack is exhausted
MaxStack == 3
\* the buffer holds at most this many words
MaxMsgWords == 32
\* msgInput is handed whole blocks of 16 words and vectors of PartLen words
PartLen == 8
\* distinct contents of the blocks handed to msgInput
NumBlockValues == 1
\* compression rounds followed per block
ModelRounds == 2

----------------------------------------------------------------------------
(* Program constants.                                                      *)

CHAR_BIT == 8

\* T is: uint8_t, uint32_t, uint64_t  (sizeof(T) * CHAR_BIT)
Widths == {8, 32, 64}

\* the operand of a shift is promoted to int when T is narrower
IntBits == 32
PromotedBits(T) == IF T < IntBits THEN IntBits ELSE T

AllBits(T) == 0 .. (T - 1)

----------------------------------------------------------------------------
(* BitwiseINT<T>                                                           *)

AND(x, y) == x \cap y
_AND(x, y) == AND(x, y)
OR(x, y) == x \cup y
_OR(x, y) == OR(x, y)
XOR(x, y) == (x \cup y) \ (x \cap y)
_XOR(x, y) == XOR(x, y)
CMPLMNT(T, x) == AllBits(T) \ x
_CMPLMNT(T, x) == CMPLMNT(T, x)

\* the carries of x + y: c holds the positions known to receive a carry; a
\* position receives one when the position below generates it (both bits
\* set) or passes on the carry it receives (one bit set)
RECURSIVE Carries(_, _, _, _)
Carries(T, g, p, c) ==
    LET n == {i + 1 : i \in g \cup (p \cap c)} \cap AllBits(T)
    IN  IF n = c THEN c ELSE Carries(T, g, p, n)

\* x + y modulo 2^T
ADDMOD(T, x, y) == XOR(XOR(x, y), Carries(T, x \cap y, x \cup y, {}))
_ADDMOD(T, x, y) == ADDMOD(T, x, y)

\* x << n and x >> n, converted back to T; defined for n < PromotedBits(T)
SHL(T, x, n) == {i + n : i \in x} \cap AllBits(T)
_SHL(T, x, n) == SHL(T, x, n)
SHR(T, x, n) == {i - n : i \in x} \cap AllBits(T)
_SHR(T, x, n) == SHR(T, x, n)

\* the amount sizeof(T) * CHAR_BIT - n handed to the second shift of a rotate.
\* The difference is computed in std::size_t and narrowed to unsigned int: for
\* n above the width it wraps to 2^32 - (n - T); 1024 stands for 2^32 here
\* (both are multiples of every width, and both are beyond every width).
RotateRest(T, n) == IF n <= T THEN T - n ELSE 1024 - (n - T)

\* a shift by the promoted width or more is undefined: the builds at hand
\* either mask the amount to the width (x86) or shift every bit out
ShiftOutcomes(T, x, n, left) ==
    IF n < PromotedBits(T)
    THEN {IF left THEN SHL(T, x, n) ELSE SHR(T, x, n)}
    ELSE {IF left THEN SHL(T, x, n % PromotedBits(T))
                  ELSE SHR(T, x, n % PromotedBits(T)), {}}

\* the assertion of ROTL and ROTR
RotateAssert(T, n) == n <= T

\* the defensive check of a rotate: the call is let through
RotateAccepts(T, n) == USE_ASSERT => RotateAssert(T, n)

ROTL(T, x, n) == OR(SHL(T, x, n), SHR(T, x, RotateRest(T, n)))
_ROTL(T, x, n) == ROTL(T, x, n)
ROTR(T, x, n) == OR(SHR(T, x, n), SHL(T, x, RotateRest(T, n)))
_ROTR(T, x, n) == ROTR(T, x, n)

\* every value a rotate call can return, undefined shifts included
RotateOutcomes(T, x, n, left) ==
    {OR(a, b) : a \in ShiftOutcomes(T, x, n, left),
                b \in ShiftOutcomes(T, x, RotateRest(T, n), ~left)}

constant(T, bits) == bits \cap AllBits(T)

\* bool -> T
xword(b) == IF b THEN {0} ELSE {}
_xword(b) == xword(b)

negate(T, x) == ADDMOD(T, CMPLMNT(T, x), {0})
_negate(T, x) == negate(T, x)

bitmask(T, b) == IF b THEN AllBits(T) ELSE {}
_bitmask(T, b) == bitmask(T, b)

ternary(b, x, y) == IF b THEN x ELSE y
_ternary(b, x, y) == ternary(b, x, y)

testbit(T, x, n) == AND(x, SHL(T, {0}, n)) # {}
_testbit(T, x, n) == testbit(T, x, n)

xtime(T, a, modpoly) ==
    IF testbit(T, a, T - 1) THEN XOR(SHL(T, a, 1), modpoly) ELSE SHL(T, a, 1)

----------------------------------------------------------------------------
(* SHA_Functions<T, U, BITWISE>                                            *)

Ch(T, x, y, z) == XOR(_AND(x, y), _AND(_CMPLMNT(T, x), z))

Parity(x, y, z) == XOR(_XOR(x, y), z)

\* faulty variant: the term y AND z is lost
Maj_twoTerms(x, y, z) == _XOR(_AND(x, y), _AND(x, z))

Maj(x, y, z) == XOR(_XOR(_AND(x, y), _AND(x, z)), _AND(y, z))

f(T, x, y, z, round) ==
    IF round < 20 THEN Ch(T, x, y, z)
    ELSE IF round < 40 THEN Parity(x, y, z)
    ELSE IF round < 60 THEN Maj(x, y, z)
    ELSE Parity(x, y, z)

SIGMA(T, x, a, b, c) == XOR(_XOR(_ROTR(T, x, a), _ROTR(T, x, b)), _ROTR(T, x, c))
sigma(T, x, a, b, c) == XOR(_XOR(_ROTR(T, x, a), _ROTR(T, x, b)), _SHR(T, x, c))

SIGMA_256_0(x) == SIGMA(32, x, 2, 13, 22)
SIGMA_256_1(x) == SIGMA(32, x, 6, 11, 25)
sigma_256_0(x) == sigma(32, x, 7, 18, 3)
sigma_256_1(x) == sigma(32, x, 17, 19, 10)
SIGMA_512_0(x) == SIGMA(64, x, 28, 34, 39)
SIGMA_512_1(x) == SIGMA(64, x, 14, 18, 41)
sigma_512_0(x) == sigma(64, x, 1, 8, 7)
sigma_512_1(x) == sigma(64, x, 19, 61, 6)

----------------------------------------------------------------------------
(* SHA_Base<CRTP, BLK, MSG>: the padding routine                           *)

blockSizeBits(B) == CASE B = "BLOCK_512" -> 512 [] B = "BLOCK_1024" -> 1024

wordSizeBits(B) == CASE B = "BLOCK_512" -> 32 [] B = "BLOCK_1024" -> 64

\* x >> n on an unsigned integer
RECURSIVE ShiftRight(_, _)
ShiftRight(x, n) == IF n = 0 THEN x ELSE ShiftRight(x \div 2, n - 1)

\* append(os, lengthBits, c), for the bytes cs in order.  lengthBits is a
\* std::size_t; the lengths of the model stay far below its range.
append(cs) ==
    /\ os' = os \o cs
    /\ lengthBits' = lengthBits + CHAR_BIT * Len(cs)

stopPadBits(B) == blockSizeBits(B) - 2 * wordSizeBits(B)

\* the eight extra zero bytes of the 1024-bit block family's length field
highLengthBytes(B) == IF B = "BLOCK_1024" THEN [i \in 1 .. 8 |-> 0] ELSE <<>>

\* (msgLengthBits >> i * CHAR_BIT) & 0xff for i = 7 down to 0
lengthByte(len, i) == ShiftRight(len, i * CHAR_BIT) % 256

lengthBytes(len) == [k \in 1 .. 8 |-> lengthByte(len, 8 - k)]

padNeeded(B, len) == (0 = len) \/ (0 # len % blockSizeBits(B))

\* the message lengths padMessage is called with
Lengths == {CHAR_BIT * q + r : q \in 0 .. MaxLengthBytes, r \in 0 .. MaxOddBits}

\* entry: copy the length, append bit "1"
padMessage_begin ==
    /\ padPc = "idle"
    /\ \E B \in {"BLOCK_512", "BLOCK_1024"}, L \in Lengths :
        /\ BLK' = B
        /\ msgLengthBits' = L
        /\ os' = <<128>>
        /\ lengthBits' = L + CHAR_BIT
    /\ padPc' = "zeros"
    /\ UNCHANGED <<USE_ASSERT, opVars, engVars>>

\* one iteration of the zero-padding loop
padMessage_zero ==
    /\ padPc = "zeros"
    /\ stopPadBits(BLK) # lengthBits % blockSizeBits(BLK)
    /\ Len(os) < MaxSuffixBytes
    /\ append(<<0>>)
    /\ UNCHANGED <<USE_ASSERT, BLK, padPc, msgLengthBits, opVars, engVars>>

\* the loop is left: append the length of the message
padMessage_length ==
    /\ padPc = "zeros"
    /\ stopPadBits(BLK) = lengthBits % blockSizeBits(BLK)
    /\ append(highLengthBytes(BLK) \o lengthBytes(msgLengthBits))
    /\ padPc' = "done"
    /\ UNCHANGED <<USE_ASSERT, BLK, msgLengthBits, opVars, engVars>>

----------------------------------------------------------------------------
(* One call of a function of BitwiseINT<T> or SHA_Functions                *)

InputBits(T) == (0 .. (LowBits - 1)) \cup {T - 1}
InputWords(T) == SUBSET InputBits(T)

\* the reduction polynomials handed to xtime and multiply
ModPolys == {{0, 1, 3, 4}, {0}}

BinaryFns == {"AND", "_AND", "OR", "_OR", "XOR", "_XOR", "ADDMOD", "_ADDMOD"}
UnaryFns == {"CMPLMNT", "_CMPLMNT", "negate", "_negate"}
ShiftFns == {"SHL", "_SHL", "SHR", "_SHR"}
RotateFns == {"ROTL", "_ROTL", "ROTR", "_ROTR"}
RoundFns == {"Ch", "Parity", "Maj"}

\* the underscore-prefixed functions and the function each one forwards to
Counterpart(fn) ==
    CASE fn = "_AND" -> "AND" [] fn = "_OR" -> "OR" [] fn = "_XOR" -> "XOR"
      [] fn = "_CMPLMNT" -> "CMPLMNT" [] fn = "_ADDMOD" -> "ADDMOD"
      [] fn = "_SHL" -> "SHL" [] fn = "_SHR" -> "SHR"
      [] fn = "_ROTL" -> "ROTL" [] fn = "_ROTR" -> "ROTR"
      [] fn = "_negate" -> "negate"
      [] fn = "_xtime" -> "xtime" [] fn = "_multiply" -> "multiply"
      [] OTHER -> fn

Underscored == {"_AND", "_OR", "_XOR", "_CMPLMNT", "_ADDMOD", "_SHL", "_SHR",
                "_ROTL", "_ROTR", "_negate", "_xtime", "_multiply"}

\* the value of a call that is a single expression
Apply(fn, T, x, y, z, n) ==
    CASE fn = "AND" -> AND(x, y)            [] fn = "_AND" -> _AND(x, y)
      [] fn = "OR" -> OR(x, y)              [] fn = "_OR" -> _OR(x, y)
      [] fn = "XOR" -> XOR(x, y)            [] fn = "_XOR" -> _XOR(x, y)
      [] fn = "ADDMOD" -> ADDMOD(T, x, y)   [] fn = "_ADDMOD" -> _ADDMOD(T, x, y)
      [] fn = "CMPLMNT" -> CMPLMNT(T, x)    [] fn = "_CMPLMNT" -> _CMPLMNT(T, x)
      [] fn = "negate" -> negate(T, x)      [] fn = "_negate" -> _negate(T, x)
      [] fn = "SHL" -> SHL(T, x, n)         [] fn = "_SHL" -> _SHL(T, x, n)
      [] fn = "SHR" -> SHR(T, x, n)         [] fn = "_SHR" -> _SHR(T, x, n)
      [] fn = "ROTL" -> ROTL(T, x, n)       [] fn = "_ROTL" -> _ROTL(T, x, n)
      [] fn = "ROTR" -> ROTR(T, x, n)       [] fn = "_ROTR" -> _ROTR(T, x, n)
      [] fn = "Ch" -> Ch(T, x, y, z)
      [] fn = "Parity" -> Parity(x, y, z)
      [] fn = "Maj" -> Maj(x, y, z)
      [] fn = "xtime" -> xtime(T, x, z)

NoWord == {}

Called(fn, T, x, y, z, n) ==
    /\ opFn' = fn /\ opT' = T
    /\ opX' = x /\ opY' = y /\ opZ' = z /\ opN' = n

Returns(v) ==
    /\ opPc' = "returned"
    /\ opResult' = v

\* AND, OR, XOR, ADDMOD and their aliases
CallBinary ==
    /\ opPc = "idle"
    /\ \E fn \in BinaryFns, T \in Widths :
       \E x \in InputWords(T), y \in InputWords(T) :
        /\ Called(fn, T, x, y, NoWord, 0)
        /\ Returns(Apply(fn, T, x, y, NoWord, 0))
    /\ UNCHANGED <<USE_ASSERT, padVars, engVars, opDepth, xtmp, ytmp, xorsum, opIter>>

\* CMPLMNT, negate and their aliases
CallUnary ==
    /\ opPc = "idle"
    /\ \E fn \in UnaryFns, T \in Widths :
       \E x \in InputWords(T) :
        /\ Called(fn, T, x, NoWord, NoWord, 0)
        /\ Returns(Apply(fn, T, x, NoWord, NoWord, 0))
    /\ UNCHANGED <<USE_ASSERT, padVars, engVars, opDepth, xtmp, ytmp, xorsum, opIter>>

\* SHL, SHR and their aliases, by an amount below the width
CallShift ==
    /\ opPc = "idle"
    /\ \E fn \in ShiftFns, T \in Widths :
       \E x \in InputWords(T), n \in 0 .. (T - 1) :
        /\ Called(fn, T, x, NoWord, NoWord, n)
        /\ Returns(Apply(fn, T, x, NoWord, NoWord, n))
    /\ UNCHANGED <<USE_ASSERT, padVars, engVars, opDepth, xtmp, ytmp, xorsum, opIter>>

\* ROTL, ROTR and their aliases, by any amount: the assertion, then the two shifts
CallRotate ==
    /\ opPc = "idle"
    /\ \E fn \in RotateFns, T \in Widths :
       \E x \in InputWords(T), n \in 0 .. (T + MaxExcess) :
        /\ Called(fn, T, x, NoWord, NoWord, n)
        /\ IF RotateAccepts(T, n)
           THEN \E v \in RotateOutcomes(T, x, n, Counterpart(fn) = "ROTL") : Returns(v)
           ELSE opPc' = "aborted" /\ opResult' = NoWord
    /\ UNCHANGED <<USE_ASSERT, padVars, engVars, opDepth, xtmp, ytmp, xorsum, opIter>>

\* Ch, Parity, Maj
CallRound ==
    /\ opPc = "idle"
    /\ \E fn \in RoundFns, T \in Widths :
       \E x \in InputWords(T), y \in InputWords(T), z \in InputWords(T) :
        /\ Called(fn, T, x, y, z, 0)
        /\ Returns(Apply(fn, T, x, y, z, 0))
    /\ UNCHANGED <<USE_ASSERT, padVars, engVars, opDepth, xtmp, ytmp, xorsum, opIter>>

\* xtime(a, modpoly)
Call_xtime ==
    /\ opPc = "idle"
    /\ \E T \in Widths :
       \E a \in InputWords(T), modpoly \in ModPolys :
        /\ Called("xtime", T, a, NoWord, modpoly, 0)
        /\ Returns(xtime(T, a, modpoly))
    /\ UNCHANGED <<USE_ASSERT, padVars, engVars, opDepth, xtmp, ytmp, xorsum, opIter>>

\* _xtime(a, modpoly) is entered
Call__xtime ==
    /\ opPc = "idle"
    /\ \E T \in Widths :
       \E a \in InputWords(T), modpoly \in ModPolys :
        Called("_xtime", T, a, NoWord, modpoly, 0)
    /\ opPc' = "in_xtime"
    /\ opDepth' = 1
    /\ UNCHANGED <<USE_ASSERT, padVars, engVars, opResult, xtmp, ytmp, xorsum, opIter>>

\* the body of _xtime: a call of _xtime with the same arguments, on a new frame
_xtime_recurse ==
    /\ opPc = "in_xtime"
    /\ IF opDepth < MaxStack
       THEN opDepth' = opDepth + 1 /\ opPc' = opPc
       ELSE opDepth' = opDepth /\ opPc' = "overflow"
    /\ UNCHANGED <<USE_ASSERT, padVars, engVars, opFn, opT, opX, opY, opZ, opN, opResult,
                   xtmp, ytmp, xorsum, opIter>>

\* the same call compiled as a jump (a tail call): the frame is reused
_xtime_tailcall ==
    /\ opPc = "in_xtime"
    /\ UNCHANGED <<USE_ASSERT, padVars, opVars, engVars>>

\* multiply(x, y, modpoly) or _multiply(x, y, modpoly) is entered: the locals
Call_multiply ==
    /\ opPc = "idle"
    /\ \E fn \in {"multiply", "_multiply"}, T \in Widths :
       \E x \in InputWords(T), y \in InputWords(T), modpoly \in ModPolys :
        /\ Called(fn, T, x, y, modpoly, 0)
        /\ xtmp' = x /\ ytmp' = y /\ xorsum' = {}
    /\ opPc' = "in_multiply"
    /\ opIter' = 0
    /\ UNCHANGED <<USE_ASSERT, padVars, engVars, opResult, opDepth>>

\* one iteration of multiply's loop
multiply_step ==
    /\ opPc = "in_multiply"
    /\ ytmp # {}
    /\ xorsum' = (IF testbit(opT, ytmp, 0) THEN XOR(xorsum, xtmp) ELSE xorsum)
    /\ ytmp' = SHR(opT, ytmp, 1)
    /\ xtmp' = xtime(opT, xtmp, opZ)
    /\ opIter' = opIter + 1
    /\ UNCHANGED <<USE_ASSERT, padVars, engVars, opPc, opFn, opT, opX, opY, opZ, opN,
                   opResult, opDepth>>

\* the loop is left: return xorsum
multiply_return ==
    /\ opPc = "in_multiply"
    /\ ytmp = {}
    /\ Returns(xorsum)
    /\ UNCHANGED <<USE_ASSERT, padVars, engVars, opFn, opT, opX, opY, opZ, opN, opDepth,
                   xtmp, ytmp, xorsum, opIter>>

----------------------------------------------------------------------------
(* The engines SHA_224 and SHA_384: constants                              *)

Variants == {"SHA224", "SHA384"}

\* no hash state, no digest
None == <<>>

\* a word written as hexadecimal digits, most significant first
HexWord(hs) ==
    {b \in 0 .. (4 * Len(hs) - 1) : (hs[Len(hs) - (b \div 4)] \div (2 ^ (b % 4))) % 2 = 1}

\* typedef SHA224 / SHA384: the word type T
WordBits(v) == IF v = "SHA224" THEN 32 ELSE 64

\* DigType: std::array<T, 7> / std::array<T, 6>
DigestWords(v) == IF v = "SHA224" THEN 7 ELSE 6

\* the block family of the base class
BlockFamily(v) == IF v = "SHA224" THEN "BLOCK_512" ELSE "BLOCK_1024"

\* MsgType: a block is 16 words
BlockWords == 16

\* the hash state is 8 words
StateWords == 8

\* NIST FIPS 180-4 section 5.3.2
InitialHash224 ==
    << HexWord(<<12, 1, 0, 5, 9, 14, 13, 8>>), HexWord(<<3, 6, 7, 12, 13, 5, 0, 7>>),
       HexWord(<<3, 0, 7, 0, 13, 13, 1, 7>>), HexWord(<<15, 7, 0, 14, 5, 9, 3, 9>>),
       HexWord(<<15, 15, 12, 0, 0, 11, 3, 1>>), HexWord(<<6, 8, 5, 8, 1, 5, 1, 1>>),
       HexWord(<<6, 4, 15, 9, 8, 15, 10, 7>>), HexWord(<<11, 14, 15, 10, 4, 15, 10, 4>>) >>

\* NIST FIPS 180-4 section 5.3.4
InitialHash384 ==
    << HexWord(<<12, 11, 11, 11, 9, 13, 5, 13, 12, 1, 0, 5, 9, 14, 13, 8>>),
       HexWord(<<6, 2, 9, 10, 2, 9, 2, 10, 3, 6, 7, 12, 13, 5, 0, 7>>),
       HexWord(<<9, 1, 5, 9, 0, 1, 5, 10, 3, 0, 7, 0, 13, 13, 1, 7>>),
       HexWord(<<1, 5, 2, 15, 14, 12, 13, 8, 15, 7, 0, 14, 5, 9, 3, 9>>),
       HexWord(<<6, 7, 3, 3, 2, 6, 6, 7, 15, 15, 12, 0, 0, 11, 3, 1>>),
       HexWord(<<8, 14, 11, 4, 4, 10, 8, 7, 6, 8, 5, 8, 1, 5, 1, 1>>),
       HexWord(<<13, 11, 0, 12, 2, 14, 0, 13, 6, 4, 15, 9, 8, 15, 10, 7>>),
       HexWord(<<4, 7, 11, 5, 4, 8, 1, 13, 11, 14, 15, 10, 4, 15, 10, 4>>) >>

\* the value initHashValue gives the hash state
initHashValue(v) ==
    LET a == IF v = "SHA224" THEN InitialHash224 ELSE InitialHash384
    IN  [i \in 1 .. StateWords |-> constant(WordBits(v), a[i])]

\* inputOK(): non-empty message must be even number of message input blocks
inputOK(v, msg) ==
    LET msgSizeBits == Len(msg) * wordSizeBits(BlockFamily(v))
    IN  msg # <<>> /\ 0 = msgSizeBits % blockSizeBits(BlockFamily(v))

\* faulty variant: the assertion is compiled out of every build
computeHashAccepts_unchecked(v, msg) == TRUE

\* the defensive check of computeHash: the call is let through
computeHashAccepts(v, msg) == USE_ASSERT => inputOK(v, msg)

\* msgWord(index): m_message[index]; a read past the end of the vector is
\* undefined, and yields the word oob here
msgWord(msg, index, oob) == IF index < Len(msg) THEN msg[index + 1] ELSE oob

----------------------------------------------------------------------------
(* The block hooks of the base classes SHA_256 and SHA_512.  Their files   *)
(* are not among the sources; they follow the design's description of the  *)
(* block loop.  The schedule is followed for ModelRounds rounds, and the   *)
(* round constants, whose tables are in those files, are left out.         *)

\* entries 0..15 of the schedule are the 16 block words verbatim
prepMsgSchedule(msg, index, oob) ==
    [t \in 1 .. BlockWords |-> msgWord(msg, index + t - 1, oob)]

\* the working variables a..h start as the hash state
initWorkingVars(H) == H

SIGMA0(v, x) == IF v = "SHA224" THEN SIGMA_256_0(x) ELSE SIGMA_512_0(x)
SIGMA1(v, x) == IF v = "SHA224" THEN SIGMA_256_1(x) ELSE SIGMA_512_1(x)

\* one round: two temporaries from SIGMA1/Ch and SIGMA0/Maj, the eight
\* working variables rotated, the schedule word added
round(v, w, Wt) ==
    LET T  == WordBits(v)
        T1 == ADDMOD(T, ADDMOD(T, ADDMOD(T, w[8], SIGMA1(v, w[5])),
                               Ch(T, w[5], w[6], w[7])), Wt)
        T2 == ADDMOD(T, SIGMA0(v, w[1]), Maj(w[1], w[2], w[3]))
    IN  << ADDMOD(T, T1, T2), w[1], w[2], w[3],
           ADDMOD(T, w[4], T1), w[5], w[6], w[7] >>

RECURSIVE roundsFrom(_, _, _, _)
roundsFrom(v, w, W, t) ==
    IF t > ModelRounds \/ t > BlockWords THEN w
    ELSE LET n == round(v, w, W[t])
         IN  IF Len(n) = StateWords THEN roundsFrom(v, n, W, t + 1) ELSE n

workingLoop(v, w, W) == roundsFrom(v, w, W, 1)

\* the working variables are folded into the hash state by modular addition
updateHash(v, H, w) == [i \in 1 .. StateWords |-> ADDMOD(WordBits(v), H[i], w[i])]

\* one iteration of computeHash's loop on the schedule W
hashBlock(v, H, W) == updateHash(v, H, workingLoop(v, initWorkingVars(H), W))

----------------------------------------------------------------------------
(* The inputs of the engine                                                *)

\* word i of the block with content k
InputWord(T, k, i) == {(k + i) % T, (3 * i + k) % CHAR_BIT, T - 1 - k}

InputBlock(v, k) == [i \in 1 .. BlockWords |-> InputWord(WordBits(v), k, i)]

InputPart(v) == [i \in 1 .. PartLen |-> InputWord(WordBits(v), 0, i)]

\* what msgInput is handed
InputVectors(v) == {InputBlock(v, k) : k \in 1 .. NumBlockValues} \cup {InputPart(v)}

\* what a read past the end of the buffer, or of a member never written, finds
GarbageWords(v) == {{}, AllBits(WordBits(v))}

----------------------------------------------------------------------------
(* SHA_Base and the variants: the public operations                        *)

\* msgInput(const std::vector<T>& a): each word is appended
msgInput ==
    /\ pc = "idle"
    /\ \E a \in InputVectors(variant) :
        /\ Len(m_message) + Len(a) <= MaxMsgWords
        /\ m_message' = m_message \o a
    /\ lastOp' = "msgInput"
    /\ lastH' = None
    /\ UNCHANGED <<USE_ASSERT, padVars, opVars, variant, m_H, m_Hleft, m_setDigest,
                   pc, msgIndex, ret, hashedMsg, runs, rerun, digests>>

\* faulty variant: the digest flag is reset with the buffer
clearMessage_reset ==
    /\ pc = "idle"
    /\ m_message' = <<>>
    /\ m_setDigest' = FALSE
    /\ lastOp' = "clearMessage"
    /\ lastH' = None
    /\ UNCHANGED <<USE_ASSERT, padVars, opVars, variant, m_H, m_Hleft,
                   pc, msgIndex, ret, hashedMsg, runs, rerun, digests>>

\* clearMessage()
clearMessage ==
    /\ pc = "idle"
    /\ m_message' = <<>>
    /\ lastOp' = "clearMessage"
    /\ lastH' = None
    /\ UNCHANGED <<USE_ASSERT, padVars, opVars, variant, m_H, m_Hleft, m_setDigest,
                   pc, msgIndex, ret, hashedMsg, runs, rerun, digests>>

\* faulty variant: the hash state is not set back to its initial value
computeHash_begin_noinit ==
    /\ pc = "idle"
    /\ lastOp' = "computeHash"
    /\ ret' = None
    /\ hashedMsg' = m_message
    /\ rerun' = (IF runs = 0 THEN "first"
                 ELSE IF lastH # None THEN "same"
                 ELSE IF hashedMsg # m_message THEN "other" ELSE "again")
    /\ digests' = 0
    /\ IF computeHashAccepts(variant, m_message)
       THEN /\ msgIndex' = 0
            /\ pc' = "hashing"
       ELSE /\ pc' = "aborted"
            /\ UNCHANGED msgIndex
    /\ UNCHANGED <<USE_ASSERT, padVars, opVars, variant, m_message, m_H, m_Hleft,
                   m_setDigest, lastH, runs>>

\* computeHash() up to its loop: the assertion, then initHashValue()
computeHash_begin ==
    /\ pc = "idle"
    /\ lastOp' = "computeHash"
    /\ ret' = None
    /\ hashedMsg' = m_message
    /\ rerun' = (IF runs = 0 THEN "first"
                 ELSE IF lastH # None THEN "same"
                 ELSE IF hashedMsg # m_message THEN "other" ELSE "again")
    /\ digests' = 0
    /\ IF computeHashAccepts(variant, m_message)
       THEN /\ m_H' = initHashValue(variant)
            /\ msgIndex' = 0
            /\ pc' = "hashing"
       ELSE /\ pc' = "aborted"
            /\ UNCHANGED <<m_H, msgIndex>>
    /\ UNCHANGED <<USE_ASSERT, padVars, opVars, variant, m_message, m_Hleft,
                   m_setDigest, lastH, runs>>

\* one iteration of the loop: prepMsgSchedule, initWorkingVars, workingLoop,
\* updateHash.  prepMsgSchedule takes its 16 words through msgWord, which
\* advances msgIndex; where the buffer ends inside the block the reads run
\* past its end: they find some word, or the process dies.
computeHash_block ==
    /\ pc = "hashing"
    /\ msgIndex < Len(m_message)
    /\ \/ /\ \E oob \in (IF msgIndex + BlockWords <= Len(m_message)
                         THEN {{}} ELSE GarbageWords(variant)) :
              m_H' = hashBlock(variant, m_H, prepMsgSchedule(m_message, msgIndex, oob))
          /\ msgIndex' = msgIndex + BlockWords
          /\ pc' = pc
       \/ /\ msgIndex + BlockWords > Len(m_message)
          /\ pc' = "crashed"
          /\ UNCHANGED <<m_H, msgIndex>>
    /\ UNCHANGED <<USE_ASSERT, padVars, opVars, variant, m_message, m_Hleft,
                   m_setDigest, lastOp, ret, hashedMsg, lastH, runs, rerun, digests>>

\* faulty variant: afterHash does not set the flag
computeHash_end_noflag ==
    /\ pc = "hashing"
    /\ ~(msgIndex < Len(m_message))
    /\ pc' = "idle"
    /\ lastH' = m_H
    /\ runs' = (IF runs < 2 THEN runs + 1 ELSE runs)
    /\ UNCHANGED <<USE_ASSERT, padVars, opVars, variant, m_message, m_H, m_Hleft,
                   m_setDigest, msgIndex, lastOp, ret, hashedMsg, rerun, digests>>

\* the loop is left: afterHash(), and computeHash returns
computeHash_end ==
    /\ pc = "hashing"
    /\ ~(msgIndex < Len(m_message))
    /\ m_setDigest' = TRUE
    /\ pc' = "idle"
    /\ lastH' = m_H
    /\ runs' = (IF runs < 2 THEN runs + 1 ELSE runs)
    /\ UNCHANGED <<USE_ASSERT, padVars, opVars, variant, m_message, m_H, m_Hleft,
                   msgIndex, lastOp, ret, hashedMsg, rerun, digests>>

\* faulty variant: the copy starts one word late
digest_shifted ==
    /\ pc = "idle"
    /\ IF m_setDigest
       THEN /\ m_Hleft' = [i \in 1 .. DigestWords(variant) |-> m_H[i + 1]]
            /\ m_setDigest' = FALSE
       ELSE UNCHANGED <<m_Hleft, m_setDigest>>
    /\ ret' = m_Hleft'
    /\ lastOp' = "digest"
    /\ digests' = (IF digests < 2 THEN digests + 1 ELSE digests)
    /\ UNCHANGED <<USE_ASSERT, padVars, opVars, variant, m_message, m_H, pc,
                   msgIndex, hashedMsg, lastH, runs, rerun>>

\* faulty variant: the flag is left set after the copy
digest_keepflag ==
    /\ pc = "idle"
    /\ IF m_setDigest
       THEN m_Hleft' = [i \in 1 .. DigestWords(variant) |-> m_H[i]]
       ELSE UNCHANGED m_Hleft
    /\ ret' = m_Hleft'
    /\ lastOp' = "digest"
    /\ digests' = (IF digests < 2 THEN digests + 1 ELSE digests)
    /\ UNCHANGED <<USE_ASSERT, padVars, opVars, variant, m_message, m_H, m_setDigest,
                   pc, msgIndex, hashedMsg, lastH, runs, rerun>>

\* digest(): copy the left words of the hash state if a hash was computed
\* since the last call, and return the copy
digest ==
    /\ pc = "idle"
    /\ IF m_setDigest
       THEN /\ m_Hleft' = [i \in 1 .. DigestWords(variant) |-> m_H[i]]
            /\ m_setDigest' = FALSE
       ELSE UNCHANGED <<m_Hleft, m_setDigest>>
    /\ ret' = m_Hleft'
    /\ lastOp' = "digest"
    /\ digests' = (IF digests < 2 THEN digests + 1 ELSE digests)
    /\ UNCHANGED <<USE_ASSERT, padVars, opVars, variant, m_message, m_H, pc,
                   msgIndex, hashedMsg, lastH, runs, rerun>>

----------------------------------------------------------------------------
(* Specifications                                                          *)

vars == <<USE_ASSERT, padVars, engVars, opVars, engVars>>

PadIdle ==
    /\ BLK = "BLOCK_512" /\ padPc = "idle"
    /\ lengthBits = 0 /\ msgLengthBits = 0 /\ os = <<>>

OpsIdle ==
    /\ opPc = "idle" /\ opFn = "" /\ opT = 8
    /\ opX = {} /\ opY = {} /\ opZ = {} /\ opN = 0
    /\ opResult = {} /\ opDepth = 0
    /\ xtmp = {} /\ ytmp = {} /\ xorsum = {} /\ opIter = 0

\* the engine after its constructor: m_setDigest(false); the hash state and
\* the truncated copy are not written (g and h: what they hold)
EngineNew(v, g, h) ==
    /\ variant = v
    /\ m_message = <<>>
    /\ m_H = [i \in 1 .. StateWords |-> g]
    /\ m_Hleft = [i \in 1 .. DigestWords(v) |-> h]
    /\ m_setDigest = FALSE
    /\ pc = "idle" /\ msgIndex = 0
    /\ lastOp = "none" /\ ret = None /\ hashedMsg = <<>> /\ lastH = None
    /\ runs = 0 /\ rerun = "none" /\ digests = 0

\* calls of padMessage
InitPad == USE_ASSERT \in BOOLEAN /\ PadIdle /\ OpsIdle /\ EngineNew("SHA224", {}, {})

NextPad == padMessage_begin \/ padMessage_zero \/ padMessage_length

SpecPad == InitPad /\ [][NextPad]_vars

\* calls of the word operations
InitOps == USE_ASSERT \in BOOLEAN /\ PadIdle /\ OpsIdle /\ EngineNew("SHA224", {}, {})

NextOps ==
    \/ CallBinary \/ CallUnary \/ CallShift \/ CallRotate \/ CallRound
    \/ Call_xtime \/ Call__xtime \/ _xtime_recurse \/ _xtime_tailcall
    \/ Call_multiply \/ multiply_step \/ multiply_return

SpecOps == InitOps /\ [][NextOps]_vars

\* one engine and its caller
Init ==
    /\ USE_ASSERT \in BOOLEAN /\ PadIdle /\ OpsIdle
    /\ \E v \in Variants : \E g \in GarbageWords(v), h \in GarbageWords(v) : EngineNew(v, g, h)

Next ==
    \/ msgInput \/ clearMessage \/ digest
    \/ computeHash_begin \/ computeHash_block \/ computeHash_end

Spec == Init /\ [][Next]_vars

----------------------------------------------------------------------------
(* Properties of padMessage (under SpecPad)                                *)

\* the bytes, read as a big-endian integer, are the number n
RECURSIVE BigEndianIs(_, _)
BigEndianIs(bytes, n) ==
    IF bytes = <<>> THEN n = 0
    ELSE /\ bytes[Len(bytes)] = n % 256
         /\ BigEndianIs(SubSeq(bytes, 1, Len(bytes) - 1), n \div 256)

\* the length field at the end of the suffix: two words
LengthFieldBytes(B) == (2 * wordSizeBits(B)) \div CHAR_BIT

PadResultOK ==
    /\ (msgLengthBits + CHAR_BIT * Len(os)) % blockSizeBits(BLK) = 0
    /\ Len(os) >= LengthFieldBytes(BLK)
    /\ BigEndianIs(SubSeq(os, Len(os) - LengthFieldBytes(BLK) + 1, Len(os)), msgLengthBits)

\* The zero-padding loop leaves: a suffix holds the 0x80 byte and fewer zero
\* bytes than a block has bytes, so while the loop runs the suffix is no
\* longer than one block.
PadLoopLeaves ==
    padPc = "zeros" => CHAR_BIT * Len(os) <= blockSizeBits(BLK)

\* C1, as stated: for any bit length L, padMessage started with lengthBits = L
\* terminates, and the suffix it has emitted brings L to a multiple of the
\* block size and ends with L as a big-endian integer.
C1_AnyLength == PadLoopLeaves /\ (padPc = "done" => PadResultOK)

\* the same, for the bit lengths that are a whole number of bytes only
C1_ByteLengths ==
    msgLengthBits % CHAR_BIT = 0 => (PadLoopLeaves /\ (padPc = "done" => PadResultOK))

\* a 1000-bit message in the 1024-bit family is padded into a second block
C1_Witness ==
    /\ padPc = "done" /\ BLK = "BLOCK_1024" /\ msgLengthBits = 1000
    /\ msgLengthBits + CHAR_BIT * Len(os) = 2 * blockSizeBits(BLK)

----------------------------------------------------------------------------
(* Properties of the word operations (under SpecOps)                       *)

\* C8, as stated: with the defensive check compiled in, ROTL and ROTR reject
\* every rotate amount outside [0, width): a rotate call that gets past the
\* check has its amount below the width.
C8_RotateRange ==
    (USE_ASSERT /\ opFn \in {"ROTL", "ROTR"} /\ opPc = "returned") => opN < opT

\* C9: Maj(x, x, z) = x and Ch(x, y, y) = y for all words x, y, z.
C9_MajCh ==
    opPc = "returned" =>
        /\ (opFn = "Maj" /\ opX = opY) => opResult = opX
        /\ (opFn = "Ch" /\ opY = opZ) => opResult = opY

C9_Witness ==
    /\ opPc = "returned" /\ opFn = "Maj" /\ opT = 64
    /\ opX = opY /\ opX = {0, 63} /\ opZ = {1, 63} /\ opResult = opX

\* C10, as stated: every underscore-prefixed function returns, with the value
\* its unprefixed counterpart returns on the same arguments (for a rotate, on
\* an amount below the width), and multiply's loop runs at most width times.
C10_Aliases ==
    /\ opFn \in Underscored => opPc # "overflow"
    /\ (opFn \in Underscored \ {"_xtime", "_multiply"} /\ opPc = "returned"
            /\ opN < opT)
        => opResult = Apply(Counterpart(opFn), opT, opX, opY, opZ, opN)
    /\ opFn \in {"multiply", "_multiply"} => opIter <= opT

----------------------------------------------------------------------------
(* Properties of the engine (under Spec)                                   *)

\* the hash state a new engine of variant v holds after computeHash on msg,
\* a whole number of blocks
RECURSIVE FreshFrom(_, _, _)
FreshFrom(v, H, msg) ==
    IF msg = <<>> THEN H
    ELSE LET n == hashBlock(v, H, SubSeq(msg, 1, BlockWords))
         IN  IF Len(n) = StateWords
             THEN FreshFrom(v, n, SubSeq(msg, BlockWords + 1, Len(msg)))
             ELSE n

\* every buffer msgInput can build
RECURSIVE BuffersFrom(_, _)
BuffersFrom(v, S) ==
    LET N == S \cup {b \in {m \o a : m \in S, a \in InputVectors(v)} :
                        Len(b) <= MaxMsgWords}
    IN  IF N = S THEN S ELSE BuffersFrom(v, N)

Buffers(v) == BuffersFrom(v, {<<>>})

\* the table of those hash states, for the buffers computeHash is meant for
FreshDigests ==
    [v \in Variants |->
        [msg \in {b \in Buffers(v) : inputOK(v, b)} |->
            FreshFrom(v, initHashValue(v), msg)]]

FreshHash(v, msg) == FreshDigests[v][msg]

\* the first k words of H
Left(H, k) == SubSeq(H, 1, k)

\* this step is a call of computeHash on a buffer that is empty or no whole
\* number of blocks
BadCall == pc = "idle" /\ pc' # "idle" /\ ~inputOK(variant, m_message)

\* this step is the return of computeHash
HashReturns == pc = "hashing" /\ pc' = "idle"

\* C2, as stated: computeHash on an empty buffer, or on one that is no whole
\* number of blocks, fails fast: the call does not run to completion and
\* marks no digest available.
C2_FailFast ==
    [][ /\ BadCall => pc' = "aborted"
        /\ HashReturns => inputOK(variant, m_message) ]_vars

\* C2, amended: in a build with the assertions active (USE_ASSERT defined,
\* NDEBUG not), such a call aborts at the assertion, before the hash state,
\* the truncated copy or the digest flag is touched, and no computeHash
\* returns on such a buffer.
C2_AssertBuild ==
    [][ USE_ASSERT =>
          /\ BadCall => (pc' = "aborted" /\ UNCHANGED <<m_H, m_Hleft, m_setDigest>>)
          /\ HashReturns => inputOK(variant, m_message) ]_vars

\* a call on half a block has been rejected
C2_Witness ==
    /\ USE_ASSERT /\ pc = "aborted"
    /\ m_message # <<>> /\ ~inputOK(variant, m_message)

\* C3: after a computeHash on a whole number of blocks, whatever was hashed
\* and read before, the hash state is the one a new engine computes for the
\* buffer, the flag is set until digest() is called, and digest() returns
\* the left words of that state.
C3_Rerun ==
    (pc = "idle" /\ runs > 0 /\ inputOK(variant, hashedMsg)) =>
        /\ m_H = FreshHash(variant, hashedMsg)
        /\ digests = 0 => m_setDigest
        /\ digests > 0 =>
              ret = Left(FreshHash(variant, hashedMsg), DigestWords(variant))

\* a second run, on a buffer of other content than the first, has been read
C3_Witness ==
    /\ USE_ASSERT /\ pc = "idle" /\ runs = 2 /\ rerun = "other"
    /\ digests > 0 /\ m_message = hashedMsg

\* C4: what digest() returns after a computeHash is exactly the first 7
\* words (SHA-224) or the first 6 words (SHA-384) of the 8-word hash state.
C4_Truncation ==
    (runs > 0 /\ digests > 0) =>
        /\ variant = "SHA224" => Len(ret) = 7
        /\ variant = "SHA384" => Len(ret) = 6
        /\ Len(m_H) = 8
        /\ \A i \in 1 .. Len(ret) : ret[i] = m_H[i]

C4_Witness ==
    /\ variant = "SHA384" /\ runs > 0 /\ digests > 0
    /\ inputOK(variant, hashedMsg) /\ Len(hashedMsg) = 2 * BlockWords
    /\ m_H[7] # m_H[1]

\* C5: between two computeHash calls every digest() returns the same words,
\* and the truncated copy is written only by a digest() that finds the flag
\* set, and that call clears the flag.
C5_Idempotent ==
    [][ /\ (digests > 0 /\ digests' > 0) => ret' = ret
        /\ m_Hleft' # m_Hleft => (m_setDigest /\ ~m_setDigest') ]_vars

\* digest() has been called twice since the last computeHash, clearMessage
\* since, and then digest() again
C5_Witness ==
    /\ runs > 0 /\ digests = 2 /\ lastOp = "digest"
    /\ m_message = <<>> /\ hashedMsg # <<>>

\* C6: clearMessage leaves the buffer empty and the hash state, the
\* truncated copy and the flag as they were; a second call in a row changes
\* nothing.
C6_ClearFrame ==
    [][ lastOp' = "clearMessage" =>
          /\ m_message' = <<>>
          /\ UNCHANGED <<m_H, m_Hleft, m_setDigest>>
          /\ lastOp = "clearMessage" => UNCHANGED m_message ]_vars

\* the buffer has been cleared with a digest computed and not yet read
C6_Witness ==
    /\ lastOp = "clearMessage" /\ m_message = <<>>
    /\ runs > 0 /\ m_setDigest /\ hashedMsg # <<>>

\* C7: computeHash returns with the buffer as it found it, and on a buffer
\* untouched since the last computeHash (a whole number of blocks) it leaves
\* the hash state that call left.
C7_Unconsumed ==
    [][ HashReturns =>
          /\ m_message' = hashedMsg
          /\ (lastH # None /\ inputOK(variant, m_message)) => m_H' = lastH ]_vars

\* computeHash has run twice in a row on two blocks
C7_Witness ==
    /\ pc = "idle" /\ lastOp = "computeHash" /\ rerun = "same"
    /\ Len(m_message) = 2 * BlockWords /\ lastH = m_H

====
